---- MODULE Spec2Model ----
(***************************************************************************)
(* GAP Filler frontend (frontend/js/app.js, kept as src/unnamed/part_000). *)
(*                                                                         *)
(* The page is a state machine over the `state` object, the DOM fields the *)
(* handlers read and write, the fetch calls in flight, and the output of   *)
(* the last step (the alert shown, the HTTP requests issued).              *)
(*                                                                         *)
(* The desktop shell around it is modelled too: the Electron main process  *)
(* (desktop/main.js, kept as src/unnamed/part_001) and the setup wizard    *)
(* (src/desktop/installer/installer.js).                                   *)
(*                                                                         *)
(* The specifications share the variables:                                 *)
(*   Spec        the search form: loadSpecies, loadModels, the form        *)
(*               controls, handleSearch with its awaited /analyze call,    *)
(*               and the search history;                                   *)
(*   SpecHistory the search history with two analyses in flight, from an   *)
(*               empty, a short and a full stored history;                 *)
(*   SpecExport  the PDF export dialog over a shown result;                *)
(*   SpecExportAfter the same dialog after an analysis the history records;*)
(*   SpecStats   the statistics cards of an answered analysis;             *)
(*   SpecDetail  the results view: showResults/renderGaps and the per-gene *)
(*               detail panels with their four awaited requests;           *)
(*   SpecFilter  the results view with the header filter buttons;          *)
(*   SpecNotes   the personal notes kept in localStorage;                  *)
(*   SpecDesktop the main process, the backend children and the wizard.    *)
(* FairSpec is Spec with the fairness the event loop gives continuations.  *)
(***************************************************************************)
EXTENDS Integers, Sequences, FiniteSets, TLC

VARIABLES
    species,            \* state.species (scientific names, table order)
    sourceSelect,       \* #source-species: [options, value]
    targetBoxes,        \* #target-species inputs: sequence of [value, checked]
    modelSelect,        \* #model-select: [options, value]
    searchInput,        \* #search-input value, a sequence of characters
    searchBtnDisabled,  \* #search-btn disabled
    loadingVisible,     \* #loading-state displayed
    analysisResults,    \* state.analysisResults
    searchHistory,      \* state.searchHistory, newest first
    now,                \* what Date.now() read last; 0 when the page loaded
    calls,              \* handleSearch invocations suspended at await analyzeGaps
    nSearches,          \* number of /analyze requests sent so far
    exportModal,        \* #export-modal: closed, or its organism checkboxes
    items,              \* #gaps-list: the gene rows renderGaps produced
    panels,             \* per gene row: the detail panel's display and content
    fetches,            \* toggleGeneDetail invocations suspended at Promise.all
    nExpands,           \* number of detail loads started so far
    alert,              \* the alert() shown by the last step, or NoAlert
    sent,               \* the HTTP requests issued by the last step
    responses,          \* the enrichment answers the last step consumed
    storedHistory,      \* localStorage['gap-filler-history']
    storedNotes,        \* localStorage: the gap-filler-note-* keys with their notes
    noteCall,           \* the saveGeneNote call of the last step, if any
    filterBtns,         \* the active header filter buttons, as <<row, type>>
    hiddenItems,        \* the .pub-item elements with display none, as <<row, k>>
    platform,           \* process.platform
    appPhase,           \* the Electron app: "launching", "ready" or "quit"
    mainWindow,         \* main.js mainWindow is not null
    installerWindow,    \* main.js installerWindow is not null
    backendProcess,     \* main.js backendProcess: 0 for null, or a child's number
    children,           \* the processes spawn() created, by number
    starts,             \* startBackend calls: IPC requests and their promises
    currentStep,        \* installer.js currentStep
    btnNext,            \* #btn-next: [disabled, onclick]
    ollamaStatus,       \* installer.js ollamaStatus: [installed, running]
    modelInstalled,     \* installer.js modelInstalled
    checks,             \* checkDependencies invocations in flight
    runs,               \* runInstallation invocations in flight
    nRuns,              \* number of runInstallation invocations so far
    installLog,         \* what the last step appended to #install-log
    ipcReply            \* what the last step returned from start-backend

vars == <<species, sourceSelect, targetBoxes, modelSelect,
          searchInput, searchBtnDisabled, loadingVisible, analysisResults,
          searchHistory, now, calls, nSearches, exportModal,
          items, panels, fetches, nExpands, alert, sent, responses,
          storedHistory, storedNotes, noteCall, filterBtns, hiddenItems,
          platform, appPhase, mainWindow, installerWindow, backendProcess,
          children, starts, currentStep, btnNext, ollamaStatus, modelInstalled,
          checks, runs,
          nRuns, installLog, ipcReply>>

formVars   == <<sourceSelect, targetBoxes, modelSelect, searchInput>>
detailVars == <<items, panels, fetches, nExpands>>
notesVars  == <<storedNotes, noteCall>>
filterVars == <<filterBtns, hiddenItems>>
mainVars   == <<platform, appPhase, mainWindow, installerWindow,
                backendProcess, children, starts>>
wizardVars == <<currentStep, btnNext, ollamaStatus, modelInstalled,
                checks, runs, nRuns,
                installLog, ipcReply>>
desktopVars == <<mainVars, wizardVars>>
\* what the search form's handlers leave alone
restVars   == <<notesVars, filterVars, desktopVars>>

----------------------------------------------------------------------------
(* Bounds of the model *)

\* /analyze requests sent in one run
MaxSearches == 1
\* detail loads started in one run
MaxExpands == 1

----------------------------------------------------------------------------
(* JavaScript values *)

\* JSON null
Null == "null"
\* no alert() was shown
NoAlert == "none"
\* state.analysisResults before the first successful analysis (null)
NoResults == [isNull |-> TRUE]

\* obj.field, undefined when the object has no such property
HasField(obj, f) == f \in DOMAIN obj

\* Array.prototype.includes
Includes(seq, v) == \E i \in 1..Len(seq) : seq[i] = v

RECURSIVE SumSeq(_)
SumSeq(seq) == IF seq = <<>> THEN 0 ELSE Head(seq) + SumSeq(Tail(seq))

\* String.prototype.trim on a sequence of characters
IsSpace(c) == c = " "

RECURSIVE TrimLeft(_)
TrimLeft(s) == IF s # <<>> /\ IsSpace(Head(s)) THEN TrimLeft(Tail(s)) ELSE s

RECURSIVE TrimRight(_)
TrimRight(s) ==
    IF s # <<>> /\ IsSpace(s[Len(s)]) THEN TrimRight(SubSeq(s, 1, Len(s) - 1)) ELSE s

NoTrim(s) == s

Trim(s) == TrimRight(TrimLeft(s))

----------------------------------------------------------------------------
(* The backend's answers the page reads (the backend is not part of the    *)
(* frontend sources; its payloads follow the request/response contract).   *)

\* GET /species: the species table, scientific names in table order
SpeciesTable == <<"Arabidopsis thaliana", "Oryza sativa">>

\* a species an earlier session's table held and this one does not
RetiredSpecies == "Zea mays"

\* GET /models: the lists of installed models the backend may report
ModelLists == {<<>>, <<"m1", "m2">>}

\* what the user may type into #search-input
Queries == {<<>>, <<" ">>, <<"q">>}

----------------------------------------------------------------------------
(* DOM helpers *)

\* value of a <select> right after its options were written: the option
\* carrying the selected attribute, else the first option, else ""
RenderedSelectValue(options, preferred) ==
    IF options = <<>> THEN ""
    ELSE IF Includes(options, preferred) THEN preferred
    ELSE options[1]

\* select.value = v: a value no option carries leaves nothing selected
AssignSelectValue(select, v) ==
    [select EXCEPT !.value = IF Includes(select.options, v) THEN v ELSE ""]

\* Array.from(querySelectorAll('#target-species input:checked')).map(cb => cb.value)
RECURSIVE CheckedValues(_)
CheckedValues(boxes) ==
    IF boxes = <<>> THEN <<>>
    ELSE IF Head(boxes).checked
         THEN <<Head(boxes).value>> \o CheckedValues(Tail(boxes))
         ELSE CheckedValues(Tail(boxes))

DefaultTargets ==
    {"Triticum aestivum", "Oryza sativa", "Zea mays", "Glycine max", "Solanum lycopersicum"}

\* populateSpeciesSelects: both controls are rewritten from state.species
PopulatedSourceSelect(table) ==
    [options |-> table, value |-> RenderedSelectValue(table, "Arabidopsis thaliana")]

PopulatedTargetBoxes(table) ==
    [i \in 1..Len(table) |->
        [value |-> table[i], checked |-> table[i] \in DefaultTargets]]

\* populateModelSelect
PopulatedModelSelect(models, current) ==
    IF models = <<>>
    THEN [options |-> <<"">>, value |-> ""]
    ELSE [options |-> models, value |-> RenderedSelectValue(models, current)]

----------------------------------------------------------------------------
(* POST /analyze as the contract describes it *)

\* the gap level the backend derives from the target publication count
Classify(t) ==
    IF t = 0 THEN "complete_gap"
    ELSE IF t <= 3 THEN "severe_gap"
    ELSE IF t <= 10 THEN "moderate_gap"
    ELSE "studied"

\* one gap record of a species' missing_genes list
GapRecord(gene, s, t) ==
    [gene |-> gene, gap_level |-> Classify(t), source_publications |-> s,
     target_publications |-> t, priority_score |-> s]

\* one entry of the payload's gaps list
SpeciesGapSummary(sp, records) ==
    [species |-> sp, common_name |-> sp, gap_count |-> Len(records),
     complete_gaps |-> Cardinality({i \in 1..Len(records) : records[i].gap_level = "complete_gap"}),
     severe_gaps |-> Cardinality({i \in 1..Len(records) : records[i].gap_level = "severe_gap"}),
     missing_genes |-> records]

\* the publication counts the cross-referencer may find for a gene in a
\* target species: both ends of every gap level
PubCounts == {0, 1, 3, 4, 10}

\* genes_found: the gene of every record, in order of first mention
RECURSIVE GenesFound(_)
GenesFound(records) ==
    IF records = <<>> THEN <<>>
    ELSE LET rest == GenesFound(SubSeq(records, 1, Len(records) - 1))
             g    == records[Len(records)].gene
         IN  IF \E i \in 1..Len(rest) : rest[i].name = g THEN rest
             ELSE rest \o <<[name |-> g, symbol |-> g, mentions |-> 1]>>

\* the payload for a request over `targets`, given the gap record found for
\* each target (found[i] is a sequence of records, none of them studied)
AnalyzePayload(targets, found) ==
    LET gaps == [i \in 1..Len(targets) |-> SpeciesGapSummary(targets[i], found[i])]
        all  == IF Len(targets) = 0 THEN <<>>
                ELSE IF Len(targets) = 1 THEN found[1]
                ELSE found[1] \o found[2]
        genes == GenesFound(all)
    IN  [articles_analyzed |-> 20,
         genes_found |-> genes,
         gene_summaries |-> [g \in {genes[i].name : i \in 1..Len(genes)} |-> "summary"],
         gaps |-> gaps,
         statistics |-> [total_gaps |-> Len(all),
                         species_with_gaps |->
                            Cardinality({i \in 1..Len(targets) : found[i] # <<>>})]]

\* the search form's backend: one gene, unpublished in every target species
UnpublishedEverywhere(targets) ==
    AnalyzePayload(targets, [i \in 1..Len(targets) |-> <<GapRecord("DREB2A", 45, 0)>>])

----------------------------------------------------------------------------
(* Rendering of the results view *)

FormatGapLevelSwapped(level) ==
    CASE level = "complete_gap" -> "1-3 publications"
      [] level = "severe_gap"   -> "No publications"
      [] level = "moderate_gap" -> "4-10 publications"
      [] level = "studied"      -> "Well studied"
      [] OTHER                  -> level

FormatGapLevel(level) ==
    CASE level = "complete_gap" -> "No publications"
      [] level = "severe_gap"   -> "1-3 publications"
      [] level = "moderate_gap" -> "4-10 publications"
      [] level = "studied"      -> "Well studied"
      [] OTHER                  -> level

\* the target-pubs cell shows the zero-publication marker
ZeroMarker(t) == t = 0

\* the source species renderGaps writes into every row
RenderedSourceSpecies(results) ==
    IF HasField(results, "source_species") /\ results.source_species # ""
    THEN results.source_species
    ELSE "Arabidopsis thaliana"

\* the gene row of gene geneIdx of gap gapIdx
GeneRow(results, gapIdx, geneIdx) ==
    LET gap == results.gaps[gapIdx]
        g   == gap.missing_genes[geneIdx]
    IN  [gapIdx |-> gapIdx, geneIdx |-> geneIdx, gene |-> g.gene,
         sourceSpecies |-> RenderedSourceSpecies(results),
         targetSpecies |-> gap.species,
         gap_level |-> g.gap_level,
         target_publications |-> g.target_publications,
         zeroMarker |-> ZeroMarker(g.target_publications),
         levelBadge |-> FormatGapLevel(g.gap_level)]

\* the rows of gaps 1..n, in document order
RECURSIVE RowsUpTo(_, _)
RowsUpTo(results, n) ==
    IF n = 0 THEN <<>>
    ELSE RowsUpTo(results, n - 1) \o
         [k \in 1..Len(results.gaps[n].missing_genes) |-> GeneRow(results, n, k)]

\* renderGaps(results.gaps || [])
RenderGaps(results) ==
    IF HasField(results, "gaps") THEN RowsUpTo(results, Len(results.gaps)) ELSE <<>>

\* every detail panel starts hidden, holding the loading placeholder
FreshPanels(rows) ==
    [i \in 1..Len(rows) |-> [display |-> FALSE, content |-> [kind |-> "loading"]]]

----------------------------------------------------------------------------
(* Initial state: the page after init() has issued its requests *)

MAX_HISTORY_ITEMS == 10

\* localStorage['gap-filler-history'] as earlier sessions may have left it:
\* nothing, or a search over a table that still held RetiredSpecies
InitialHistories ==
    {<<>>,
     <<[query |-> <<"q">>, sourceSpecies |-> RetiredSpecies,
        targetSpecies |-> <<"Oryza sativa", RetiredSpecies>>, resultsCount |-> 2,
        timestamp |-> 0, id |-> 0]>>}

\* localStorage values: a key that is not set, and JSON.stringify's text
Removed == [present |-> FALSE]
Serialise(value) == [present |-> TRUE, json |-> value]

\* JSON.parse(localStorage.getItem('gap-filler-history') || '[]') gave
\* `history`
StoredFor(history) == IF history = <<>> THEN Removed ELSE Serialise(history)

\* no startBackend promise settled in the last step
NoReply == [made |-> FALSE]

\* a spawned process: whether it runs, whether stopBackend signalled it,
\* whether it printed 'Running on'
Child(state, killed, reported) ==
    [state |-> state, killed |-> killed, reported |-> reported]

\* the desktop shell as the search page sees it: started directly, the
\* backend serving, the main window open
DesktopServing ==
    /\ platform = "linux"
    /\ appPhase = "ready"
    /\ mainWindow = TRUE
    /\ installerWindow = FALSE
    /\ backendProcess = 1
    /\ children = <<Child("serving", FALSE, TRUE)>>
    /\ starts = {}
    /\ currentStep = 1
    /\ btnNext = [disabled |-> FALSE, onclick |-> FALSE]
    /\ ollamaStatus = [installed |-> FALSE, running |-> FALSE]
    /\ modelInstalled = FALSE
    /\ checks = 0
    /\ runs = {}
    /\ nRuns = 0
    /\ installLog = <<>>
    /\ ipcReply = NoReply

\* no note saved, no saveGeneNote call made
NoNotes == {}
NoCall == [made |-> FALSE]

InitCommon ==
    /\ storedNotes = NoNotes
    /\ noteCall = NoCall
    /\ filterBtns = {}
    /\ hiddenItems = {}
    /\ DesktopServing
    /\ searchBtnDisabled = FALSE
    /\ loadingVisible = FALSE
    /\ now = 0
    /\ calls = {}
    /\ nSearches = 0
    /\ exportModal = [open |-> FALSE, orgs |-> <<>>]
    /\ fetches = {}
    /\ nExpands = 0
    /\ alert = NoAlert
    /\ sent = {}
    /\ responses = <<>>

Init ==
    /\ InitCommon
    /\ species = <<>>
    /\ sourceSelect = [options |-> <<>>, value |-> ""]
    /\ targetBoxes = <<>>
    /\ modelSelect = [options |-> <<>>, value |-> ""]
    /\ searchInput = <<>>
    /\ analysisResults = NoResults
    /\ searchHistory \in InitialHistories
    /\ storedHistory = StoredFor(searchHistory)
    /\ items = <<>>
    /\ panels = <<>>

\* a step that shows no alert and issues no request
Quiet == alert' = NoAlert /\ sent' = {} /\ responses' = <<>>

----------------------------------------------------------------------------
(* init(): the answers to loadSpecies and loadModels *)
(*                                                                         *)
(* Each is called once. A failed call only logs, so it is the behaviour in *)
(* which the answer never comes; an answer still owed is one whose control *)
(* has not been written yet.                                               *)

LoadSpecies ==
    /\ species = <<>>
    /\ species' = SpeciesTable
    /\ sourceSelect' = PopulatedSourceSelect(SpeciesTable)
    /\ targetBoxes' = PopulatedTargetBoxes(SpeciesTable)
    /\ Quiet
    /\ UNCHANGED <<modelSelect, searchInput, searchBtnDisabled,
                   loadingVisible, analysisResults, searchHistory, now, calls,
                   nSearches, exportModal, detailVars>>
    /\ UNCHANGED <<storedHistory, restVars>>

LoadModels ==
    /\ modelSelect.options = <<>>
    /\ \E models \in ModelLists :
       \E current \in {models[i] : i \in 1..Len(models)} \cup {""} :
          modelSelect' = PopulatedModelSelect(models, current)
    /\ Quiet
    /\ UNCHANGED <<species, sourceSelect, targetBoxes, searchInput,
                   searchBtnDisabled, loadingVisible, analysisResults,
                   searchHistory, now, calls, nSearches, exportModal, detailVars>>
    /\ UNCHANGED <<storedHistory, restVars>>

----------------------------------------------------------------------------
(* The form controls *)

formFrame ==
    UNCHANGED <<species, searchBtnDisabled, loadingVisible,
                analysisResults, searchHistory, now, calls, nSearches,
                exportModal, detailVars,
                storedHistory, restVars>>

TypeQuery ==
    /\ \E q \in Queries : q # searchInput /\ searchInput' = q
    /\ Quiet
    /\ UNCHANGED <<sourceSelect, targetBoxes, modelSelect>>
    /\ formFrame

SelectSource ==
    /\ \E i \in 1..Len(sourceSelect.options) :
          /\ sourceSelect.options[i] # sourceSelect.value
          /\ sourceSelect' = [sourceSelect EXCEPT !.value = sourceSelect.options[i]]
    /\ Quiet
    /\ UNCHANGED <<targetBoxes, modelSelect, searchInput>>
    /\ formFrame

ToggleTarget ==
    /\ \E i \in 1..Len(targetBoxes) :
          targetBoxes' = [targetBoxes EXCEPT ![i].checked = ~targetBoxes[i].checked]
    /\ Quiet
    /\ UNCHANGED <<sourceSelect, modelSelect, searchInput>>
    /\ formFrame

HandleSelectAll ==
    /\ targetBoxes' = [i \in 1..Len(targetBoxes) |-> [targetBoxes[i] EXCEPT !.checked = TRUE]]
    /\ Quiet
    /\ UNCHANGED <<sourceSelect, modelSelect, searchInput>>
    /\ formFrame

HandleDeselectAll ==
    /\ targetBoxes' = [i \in 1..Len(targetBoxes) |-> [targetBoxes[i] EXCEPT !.checked = FALSE]]
    /\ Quiet
    /\ UNCHANGED <<sourceSelect, modelSelect, searchInput>>
    /\ formFrame

\* the change event of #model-select; setModel posts the choice and stores
\* the backend's answer, or logs the failure
HandleModelChange ==
    /\ \E i \in 1..Len(modelSelect.options) :
          LET model == modelSelect.options[i] IN
          /\ model # modelSelect.value
          /\ modelSelect' = [modelSelect EXCEPT !.value = model]
          /\ sent' = IF model # ""
                     THEN {[endpoint |-> "/models/set", model |-> model]}
                     ELSE {}
    /\ alert' = NoAlert
    /\ UNCHANGED <<species, sourceSelect, targetBoxes, searchInput,
                   searchBtnDisabled, loadingVisible, analysisResults,
                   searchHistory, now, calls, nSearches, exportModal,
                   detailVars>>
    /\ responses' = <<>>
    /\ UNCHANGED <<storedHistory, restVars>>

----------------------------------------------------------------------------
(* Search history *)

\* an addToSearchHistory that never cuts
AddNoEviction(history, item) == <<item>> \o history

\* state.searchHistory after unshift and the cut to MAX_HISTORY_ITEMS
AddToSearchHistory(history, item) ==
    LET added == <<item>> \o history
    IN  IF Len(added) > MAX_HISTORY_ITEMS THEN SubSeq(added, 1, MAX_HISTORY_ITEMS)
        ELSE added

HistoryItem(query, sourceSpecies, targetSpecies, resultsCount, time) ==
    [query |-> query, sourceSpecies |-> sourceSpecies,
     targetSpecies |-> targetSpecies, resultsCount |-> resultsCount,
     timestamp |-> time, id |-> time]

\* state.searchHistory.find(h => h.id === itemId)
FindHistory(history, itemId) ==
    LET hits == {i \in 1..Len(history) : history[i].id = itemId}
    IN  history[CHOOSE i \in hits : \A j \in hits : i <= j]

\* loadFromHistory(itemId), for an id some entry has
LoadFromHistoryItem(itemId) ==
    /\ LET item == FindHistory(searchHistory, itemId) IN
          /\ searchInput' = item.query
          /\ sourceSelect' = AssignSelectValue(sourceSelect, item.sourceSpecies)
          /\ targetBoxes' = [i \in 1..Len(targetBoxes) |->
                [targetBoxes[i] EXCEPT
                    !.checked = Includes(item.targetSpecies, targetBoxes[i].value)]]
    /\ Quiet
    /\ UNCHANGED modelSelect
    /\ formFrame

\* a click on a rendered history entry: its onclick passes the entry's id
LoadFromHistory ==
    \E k \in 1..Len(searchHistory) : LoadFromHistoryItem(searchHistory[k].id)

ClearSearchHistory ==
    /\ searchHistory # <<>>
    /\ searchHistory' = <<>>
    /\ Quiet
    /\ UNCHANGED <<species, formVars, searchBtnDisabled,
                   loadingVisible, analysisResults, now, calls,
                   nSearches, exportModal, detailVars>>
    /\ storedHistory' = Removed
    /\ UNCHANGED restVars

----------------------------------------------------------------------------
(* handleSearch *)

ModelFieldAmbient(model) == Null

\* model || null
ModelField(model) == IF model = "" THEN Null ELSE model

\* the body analyzeGaps posts
AnalyzeRequest(query, sourceSpecies, targetSpecies, model) ==
    [endpoint |-> "/analyze", query |-> query, source_species |-> sourceSpecies,
     target_species |-> targetSpecies, model |-> ModelField(model)]

EmptyQueryAlert == "Please enter a search query"
NoTargetAlert   == "Please select at least one target species"
FailedAlert     == "Analysis failed"

\* handleSearch without its second validation
HandleSearchNoTargetCheck ==
    LET query         == Trim(searchInput)
        sourceSpecies == sourceSelect.value
        targetSpecies == CheckedValues(targetBoxes)
        model         == modelSelect.value
    IN  IF query = <<>>
        THEN /\ alert' = EmptyQueryAlert
             /\ sent' = {}
             /\ UNCHANGED <<searchBtnDisabled, loadingVisible, calls, nSearches>>
        ELSE /\ nSearches < MaxSearches
             /\ searchBtnDisabled' = TRUE
             /\ loadingVisible' = TRUE
             /\ nSearches' = nSearches + 1
             /\ calls' = calls \cup
                   {[id |-> nSearches + 1, query |-> query,
                     sourceSpecies |-> sourceSpecies,
                     targetSpecies |-> targetSpecies,
                     status |-> "pending", body |-> NoResults]}
             /\ sent' = {[endpoint |-> "/analyze", query |-> query,
                          source_species |-> sourceSpecies,
                          target_species |-> targetSpecies,
                          model |-> IF model = "" THEN Null ELSE model]}
             /\ alert' = NoAlert

\* handleSearch up to its await: the two validations, then the button is
\* disabled, the loading state shown and the request sent
HandleSearch ==
    LET query         == Trim(searchInput)
        sourceSpecies == sourceSelect.value
        targetSpecies == CheckedValues(targetBoxes)
        model         == modelSelect.value
    IN  IF query = <<>>
        THEN /\ alert' = EmptyQueryAlert
             /\ sent' = {}
             /\ UNCHANGED <<searchBtnDisabled, loadingVisible, calls, nSearches>>
        ELSE IF targetSpecies = <<>>
        THEN /\ alert' = NoTargetAlert
             /\ sent' = {}
             /\ UNCHANGED <<searchBtnDisabled, loadingVisible, calls, nSearches>>
        ELSE /\ nSearches < MaxSearches
             /\ searchBtnDisabled' = TRUE
             /\ loadingVisible' = TRUE
             /\ nSearches' = nSearches + 1
             /\ calls' = calls \cup
                   {[id |-> nSearches + 1, query |-> query,
                     sourceSpecies |-> sourceSpecies,
                     targetSpecies |-> targetSpecies,
                     status |-> "pending", body |-> NoResults]}
             /\ sent' = {AnalyzeRequest(query, sourceSpecies, targetSpecies, model)}
             /\ alert' = NoAlert

searchFrame ==
    UNCHANGED <<species, formVars, analysisResults, searchHistory,
                now, exportModal, detailVars,
                storedHistory, restVars>>

\* a click on #search-btn; a disabled button fires no click
SearchClick ==
    /\ ~searchBtnDisabled
    /\ HandleSearch
    /\ searchFrame
    /\ responses' = <<>>

\* Enter in #search-input
SearchEnter ==
    /\ HandleSearch
    /\ searchFrame
    /\ responses' = <<>>

\* the backend answers a pending /analyze call, or the connection fails
BackendAnswers ==
    /\ \E c \in calls :
          /\ c.status = "pending"
          /\ \/ calls' = (calls \ {c}) \cup
                     {[c EXCEPT !.status = "ok",
                                !.body = UnpublishedEverywhere(c.targetSpecies)]}
             \/ \E failure \in {"http_error", "network_error"} :
                  calls' = (calls \ {c}) \cup {[c EXCEPT !.status = "failed"]}
    /\ Quiet
    /\ UNCHANGED <<species, formVars, searchBtnDisabled,
                   loadingVisible, analysisResults, searchHistory, now,
                   nSearches, exportModal, detailVars>>
    /\ UNCHANGED <<storedHistory, restVars>>

\* results.gaps?.reduce((sum, g) => sum + g.gap_count, 0) || 0
GapsCount(results) ==
    IF HasField(results, "gaps")
    THEN SumSeq([i \in 1..Len(results.gaps) |-> results.gaps[i].gap_count])
    ELSE 0

\* the rest of the try block: showResults, then addToSearchHistory, whose
\* Date.now() may read the millisecond of the previous entry or a later
\* one, and in any case one after the page's load; the finally clause
\* enables the button
ResumeSearchOk(c) ==
    /\ c.status = "ok"
    /\ calls' = calls \ {c}
    /\ analysisResults' = c.body
    /\ loadingVisible' = FALSE
    /\ items' = RenderGaps(c.body)
    /\ panels' = FreshPanels(RenderGaps(c.body))
    /\ fetches' = {[f EXCEPT !.detached = TRUE] : f \in fetches}
    /\ \E time \in {now, now + 1} \ {0} :
          /\ now' = time
          /\ searchHistory' = AddToSearchHistory(searchHistory,
                HistoryItem(c.query, c.sourceSpecies, c.targetSpecies,
                            GapsCount(c.body), time))
    /\ searchBtnDisabled' = FALSE
    /\ Quiet
    /\ UNCHANGED <<species, formVars, nSearches,
                   exportModal, nExpands>>
    /\ storedHistory' = Serialise(searchHistory')
    /\ filterBtns' = {}
    /\ hiddenItems' = {}
    /\ UNCHANGED <<notesVars, desktopVars>>

\* a catch block that also records the failed search
ResumeSearchFailedRecorded(c) ==
    /\ c.status = "failed"
    /\ calls' = calls \ {c}
    /\ loadingVisible' = FALSE
    /\ alert' = FailedAlert
    /\ sent' = {}
    /\ searchBtnDisabled' = FALSE
    /\ searchHistory' = AddToSearchHistory(searchHistory,
           HistoryItem(c.query, c.sourceSpecies, c.targetSpecies, 0, now))
    /\ UNCHANGED <<species, formVars, analysisResults,
                   now, nSearches, exportModal, detailVars>>
    /\ responses' = <<>>
    /\ storedHistory' = Serialise(searchHistory')
    /\ UNCHANGED restVars

\* the catch block: hideLoading and the alert; the finally clause enables
\* the button
ResumeSearchFailed(c) ==
    /\ c.status = "failed"
    /\ calls' = calls \ {c}
    /\ loadingVisible' = FALSE
    /\ alert' = FailedAlert
    /\ sent' = {}
    /\ searchBtnDisabled' = FALSE
    /\ UNCHANGED <<species, formVars, analysisResults,
                   searchHistory, now, nSearches, exportModal, detailVars>>
    /\ responses' = <<>>
    /\ UNCHANGED <<storedHistory, restVars>>

\* the event loop resumes a handleSearch whose fetch has settled
ResumeSearch ==
    \E c \in calls : ResumeSearchOk(c) \/ ResumeSearchFailed(c)

----------------------------------------------------------------------------
(* Gene detail panels *)

\* how one enrichment request ends: a 2xx answer of the contracted shape, or
\* a network error / non-2xx status
Outcomes == {"ok", "failed"}

\* the answers the enrichment endpoints give with a 2xx status
PublicationsBody ==
    [publications |-> <<[title |-> "t1", study_type |-> "functional"],
                        [title |-> "t2", study_type |-> "gwas"]>>,
     total_count |-> 2]
GOTermsBody ==
    [success |-> TRUE, molecular_function |-> <<"GO:0003700">>]
OrthologBody ==
    [success |-> TRUE, ortholog_found |-> TRUE,
     ortholog |-> [sequence_identity |-> 80, confidence |-> "high"]]

Resolved(value) == [settled |-> "resolved", value |-> value]
Rejected(message) == [settled |-> "rejected", value |-> [message |-> message]]

\* fetchPublications -> apiRequest: rethrows whatever went wrong
FetchPublications(outcome) ==
    IF outcome = "ok" THEN Resolved(PublicationsBody) ELSE Rejected("API error")

\* a fetchGOTerms without its catch block
FetchGOTermsThrows(outcome) ==
    IF outcome = "ok" THEN Resolved(GOTermsBody)
    ELSE Rejected("Failed to fetch GO terms")

\* fetchGOTerms: the catch block turns every failure into a tagged value
FetchGOTerms(outcome) ==
    IF outcome = "ok" THEN Resolved(GOTermsBody)
    ELSE Resolved([success |-> FALSE, molecular_function |-> <<>>])

\* fetchOrthologInfo: likewise
FetchOrthologInfo(outcome) ==
    IF outcome = "ok" THEN Resolved(OrthologBody)
    ELSE Resolved([success |-> FALSE, ortholog_found |-> FALSE,
                   error |-> "Failed to fetch ortholog info"])

\* Promise.all over settled promises: the first rejection, else all values
PromiseAll(promises) ==
    IF \E i \in 1..Len(promises) : promises[i].settled = "rejected"
    THEN LET first == CHOOSE i \in 1..Len(promises) :
                         /\ promises[i].settled = "rejected"
                         /\ \A j \in 1..(i - 1) : promises[j].settled = "resolved"
         IN  promises[first]
    ELSE Resolved([i \in 1..Len(promises) |-> promises[i].value])

\* the .pub-item elements renderPubList writes, by their data-study-type
RenderPubList(pubs) ==
    [k \in 1..Len(pubs.publications) |->
        [studyType |-> pubs.publications[k].study_type]]

\* the panel content renderPublicationDetail writes
RenderPublicationDetail(sourcePubs, targetPubs, goTerms, orthologInfo) ==
    [kind |-> "detail",
     pubItems |-> RenderPubList(sourcePubs) \o
                  (IF Len(targetPubs.publications) > 0
                   THEN RenderPubList(targetPubs) ELSE <<>>),
     sourceCount |-> sourcePubs.total_count,
     targetCount |-> targetPubs.total_count,
     hasTargetPubs |-> Len(targetPubs.publications) > 0,
     goSection |-> IF goTerms.success THEN "terms" ELSE "not_available",
     orthologSection |->
        IF orthologInfo.success /\ orthologInfo.ortholog_found THEN "identity"
        ELSE IF orthologInfo.success THEN "not_found"
        ELSE "api_error"]

\* the four requests toggleGeneDetail issues for row i: the arguments are
\* the ones renderGaps wrote into the row's onclick
DetailRequests(rows, i) ==
    LET row == rows[i] IN
    {[endpoint |-> "/publications", gene |-> row.gene, species |-> row.sourceSpecies],
     [endpoint |-> "/publications", gene |-> row.gene, species |-> row.targetSpecies],
     [endpoint |-> "/go-terms", gene |-> row.gene, species |-> row.sourceSpecies],
     [endpoint |-> "/ortholog", gene |-> row.gene,
      source_species |-> row.sourceSpecies, target_species |-> row.targetSpecies]}

detailFrame ==
    UNCHANGED <<species, formVars, searchBtnDisabled, loadingVisible,
                analysisResults, searchHistory, now, calls, nSearches,
                exportModal, items,
                storedHistory, restVars>>

\* a click on a gene row's header
ToggleGeneDetail ==
    /\ \E i \in 1..Len(items) :
          IF ~panels[i].display
          THEN IF panels[i].content.kind = "loading"
               THEN /\ nExpands < MaxExpands
                    /\ panels' = [panels EXCEPT ![i].display = TRUE]
                    /\ nExpands' = nExpands + 1
                    /\ fetches' = fetches \cup
                          {[id |-> nExpands + 1, row |-> i, detached |-> FALSE]}
                    /\ sent' = DetailRequests(items, i)
               ELSE /\ panels' = [panels EXCEPT ![i].display = TRUE]
                    /\ sent' = {}
                    /\ UNCHANGED <<fetches, nExpands>>
          ELSE /\ panels' = [panels EXCEPT ![i].display = FALSE]
               /\ sent' = {}
               /\ UNCHANGED <<fetches, nExpands>>
    /\ alert' = NoAlert
    /\ responses' = <<>>
    /\ detailFrame

\* the four requests of one toggleGeneDetail have settled and the event loop
\* resumes it after Promise.all; a panel that a later showResults replaced
\* is no longer in the document
ResumeDetail ==
    /\ \E f \in fetches :
       \E src \in Outcomes, tgt \in Outcomes, go \in Outcomes, orth \in Outcomes :
          LET all == PromiseAll(<<FetchPublications(src), FetchPublications(tgt),
                                  FetchGOTerms(go), FetchOrthologInfo(orth)>>)
              content == IF all.settled = "resolved"
                         THEN RenderPublicationDetail(all.value[1], all.value[2],
                                                      all.value[3], all.value[4])
                         ELSE [kind |-> "error", message |-> all.value.message]
          IN  /\ fetches' = fetches \ {f}
              /\ panels' = IF f.detached THEN panels
                           ELSE [panels EXCEPT ![f.row].content = content]
              /\ responses' = <<src, tgt, go, orth>>
    /\ alert' = NoAlert
    /\ sent' = {}
    /\ UNCHANGED nExpands
    /\ detailFrame

----------------------------------------------------------------------------
(* PDF export *)

\* the organism checkboxes openExportModal writes, all checked
ExportOrgs(results) ==
    IF HasField(results, "gaps")
    THEN [i \in 1..Len(results.gaps) |-> [value |-> results.gaps[i].species, checked |-> TRUE]]
    ELSE <<>>

\* (state.analysisResults.gaps || []).filter(gap => selectedOrgs.includes(gap.species))
RECURSIVE FilterGaps(_, _)
FilterGaps(gaps, selectedOrgs) ==
    IF gaps = <<>> THEN <<>>
    ELSE IF Includes(selectedOrgs, Head(gaps).species)
         THEN <<Head(gaps)>> \o FilterGaps(Tail(gaps), selectedOrgs)
         ELSE FilterGaps(Tail(gaps), selectedOrgs)

\* the body generatePDFWithSelection posts
ExportRequest(results, selectedOrgs) ==
    [endpoint |-> "/export/pdf",
     query |-> IF HasField(results, "query") /\ results.query # <<>>
               THEN results.query ELSE searchInput,
     source_species |-> sourceSelect.value,
     target_species |-> selectedOrgs,
     gaps |-> FilterGaps(IF HasField(results, "gaps") THEN results.gaps ELSE <<>>,
                         selectedOrgs),
     genes |-> IF HasField(results, "genes") THEN results.genes ELSE <<>>,
     summaries |-> IF HasField(results, "summaries") THEN results.summaries ELSE <<>>]

NoExportAlert    == "No analysis results to export. Run a search first."
NoOrganismAlert  == "Please select at least one organism to export."

exportFrame ==
    UNCHANGED <<species, formVars, searchBtnDisabled,
                loadingVisible, analysisResults, searchHistory, now,
                calls, nSearches, detailVars,
                storedHistory, restVars>>

\* a click on #export-pdf-btn: exportPDF, then openExportModal
ExportPDF ==
    /\ ~exportModal.open
    /\ IF analysisResults = NoResults
       THEN alert' = NoExportAlert /\ UNCHANGED exportModal
       ELSE /\ alert' = NoAlert
            /\ exportModal' = [open |-> TRUE, orgs |-> ExportOrgs(analysisResults)]
    /\ sent' = {}
    /\ exportFrame
    /\ responses' = <<>>

ToggleExportOrg ==
    /\ exportModal.open
    /\ \E i \in 1..Len(exportModal.orgs) :
          exportModal' = [exportModal EXCEPT !.orgs[i].checked = ~exportModal.orgs[i].checked]
    /\ Quiet
    /\ exportFrame

CloseExportModal ==
    /\ exportModal.open
    /\ exportModal' = [exportModal EXCEPT !.open = FALSE]
    /\ Quiet
    /\ exportFrame

\* a click on Generate PDF, up to the await
GeneratePDFWithSelection ==
    /\ exportModal.open
    /\ LET selectedOrgs == CheckedValues(exportModal.orgs) IN
       IF selectedOrgs = <<>>
       THEN /\ alert' = NoOrganismAlert
            /\ sent' = {}
            /\ UNCHANGED exportModal
       ELSE /\ exportModal' = [exportModal EXCEPT !.open = FALSE]
            /\ sent' = {ExportRequest(analysisResults, selectedOrgs)}
            /\ alert' = NoAlert
    /\ exportFrame
    /\ responses' = <<>>

----------------------------------------------------------------------------
(* The search form *)

Next ==
    \/ LoadSpecies
    \/ LoadModels
    \/ TypeQuery
    \/ SelectSource
    \/ ToggleTarget
    \/ HandleSelectAll
    \/ HandleDeselectAll
    \/ HandleModelChange
    \/ LoadFromHistory
    \/ SearchClick
    \/ SearchEnter
    \/ BackendAnswers
    \/ ResumeSearch

Spec == Init /\ [][Next]_vars

\* a settled fetch's continuation is a queued task, and the event loop runs
\* every queued task; nothing obliges the backend to answer
FairSpec == Spec /\ WF_vars(ResumeSearch)

----------------------------------------------------------------------------
(* The search history, on a loaded page while an analysis started by a     *)
(* click is in flight                                                      *)

\* entry k of a history earlier sessions left: older entries further back
OldEntry(k) ==
    [query |-> <<"q">>,
     sourceSpecies |-> SpeciesTable[1 + (k % 2)],
     targetSpecies |-> IF k % 3 = 0 THEN <<"Oryza sativa">>
                       ELSE <<"Arabidopsis thaliana", "Oryza sativa">>,
     resultsCount |-> k, timestamp |-> 0 - k, id |-> 0 - k]

\* nothing, one entry, or as many as the history holds
StoredHistories ==
    {<<>>, <<OldEntry(0)>>, [k \in 1..MAX_HISTORY_ITEMS |-> OldEntry(k - 1)]}

InitHistory ==
    /\ storedNotes = NoNotes
    /\ noteCall = NoCall
    /\ filterBtns = {}
    /\ hiddenItems = {}
    /\ DesktopServing
    /\ species = SpeciesTable
    /\ sourceSelect = PopulatedSourceSelect(SpeciesTable)
    /\ targetBoxes = PopulatedTargetBoxes(SpeciesTable)
    /\ modelSelect = [options |-> <<>>, value |-> ""]
    /\ searchInput = <<"q">>
    /\ searchBtnDisabled = TRUE
    /\ loadingVisible = TRUE
    /\ analysisResults = NoResults
    /\ searchHistory \in StoredHistories
    /\ storedHistory = StoredFor(searchHistory)
    /\ now = 0
    /\ calls = {[id |-> 0, query |-> <<"q">>,
                 sourceSpecies |-> sourceSelect.value,
                 targetSpecies |-> CheckedValues(targetBoxes),
                 status |-> "pending", body |-> NoResults]}
    /\ nSearches = 0
    /\ exportModal = [open |-> FALSE, orgs |-> <<>>]
    /\ items = <<>>
    /\ panels = <<>>
    /\ fetches = {}
    /\ nExpands = 0
    /\ alert = NoAlert
    /\ sent = {}
    /\ responses = <<>>

NextHistory ==
    \/ SelectSource
    \/ SearchEnter
    \/ BackendAnswers
    \/ ResumeSearch
    \/ LoadFromHistory
    \/ ClearSearchHistory

SpecHistory == InitHistory /\ [][NextHistory]_vars

----------------------------------------------------------------------------
(* The export dialog, on a page whose species table has loaded and whose   *)
(* last analysis, if any, has been shown                                   *)

\* the target lists a search over the table can name
TargetLists == {<<"Oryza sativa">>, <<"Arabidopsis thaliana", "Oryza sativa">>}

InitLoaded ==
    /\ InitCommon
    /\ species = SpeciesTable
    /\ sourceSelect = PopulatedSourceSelect(SpeciesTable)
    /\ targetBoxes = PopulatedTargetBoxes(SpeciesTable)
    /\ modelSelect = [options |-> <<>>, value |-> ""]
    /\ searchHistory = <<>>
    /\ storedHistory = Removed

InitExport ==
    /\ InitLoaded
    /\ searchInput = <<>>
    /\ analysisResults \in {NoResults} \cup {UnpublishedEverywhere(t) : t \in TargetLists}
    /\ items = RenderGaps(analysisResults)
    /\ panels = FreshPanels(items)

NextExport ==
    \/ TypeQuery
    \/ SelectSource
    \/ ExportPDF
    \/ ToggleExportOrg
    \/ CloseExportModal
    \/ GeneratePDFWithSelection

SpecExport == InitExport /\ [][NextExport]_vars

----------------------------------------------------------------------------
(* The desktop shell: the Electron main process (desktop/main.js, kept as   *)
(* src/unnamed/part_001) and the setup wizard (desktop/installer/           *)
(* installer.js) that talks to it through the preload bridge                *)

\* runInstallation invocations, checkDependencies invocations in flight and
\* backend processes spawned in one run
MaxRuns == 2
MaxChecks == 2
MaxSpawns == 2

Platforms == {"win32", "darwin", "linux"}

\* a child that is running and that nobody has signalled
Running(kids, c) ==
    kids[c].state \in {"starting", "serving"} /\ ~kids[c].killed

\* stopBackend: signals the process backendProcess names, and forgets it
StopBackendChildren ==
    IF backendProcess # 0
    THEN [children EXCEPT ![backendProcess].killed = TRUE]
    ELSE children

pageVars ==
    <<species, formVars, searchBtnDisabled, loadingVisible, analysisResults,
      searchHistory, now, calls, nSearches, exportModal, detailVars,
      alert, sent, responses, storedHistory, notesVars, filterVars>>

\* a step that logs nothing in the wizard and answers no start-backend call
NoOutput == installLog' = <<>> /\ ipcReply' = NoReply

\* startBackend's executor: spawn, and remember the child in backendProcess
Spawned == Append(children, Child("starting", FALSE, FALSE))

\* app.whenReady().then(...): the wizard when Ollama or the model is
\* missing, else startBackend(), awaited before createMainWindow()
WhenReady ==
    /\ appPhase = "launching"
    /\ appPhase' = "ready"
    /\ \E setupNeeded \in BOOLEAN :
          IF setupNeeded
          THEN /\ installerWindow' = TRUE
               /\ UNCHANGED <<backendProcess, children, starts>>
          ELSE /\ children' = Spawned
               /\ backendProcess' = Len(children) + 1
               /\ starts' = {[caller |-> 0, child |-> Len(children) + 1,
                              state |-> "pending"]}
               /\ UNCHANGED installerWindow
    /\ NoOutput
    /\ UNCHANGED <<platform, mainWindow, currentStep, btnNext, ollamaStatus,
                   modelInstalled, checks, runs, nRuns, pageVars>>

\* ipcMain.handle('start-backend'): the handler runs up to its await
StartBackendIpc ==
    /\ appPhase = "ready"
    /\ Len(children) < MaxSpawns
    /\ \E s \in starts :
          /\ s.state = "sent"
          /\ children' = Spawned
          /\ backendProcess' = Len(children) + 1
          /\ starts' = (starts \ {s}) \cup
                {[s EXCEPT !.child = Len(children) + 1, !.state = "pending"]}
    /\ NoOutput
    /\ UNCHANGED <<platform, appPhase, mainWindow, installerWindow, currentStep,
                   btnNext, ollamaStatus, modelInstalled, checks, runs, nRuns,
                   pageVars>>

\* the promise of the startBackend call that spawned child c, settled with
\* `state` unless it has settled already
Settle(c, state) ==
    {IF s.child = c /\ s.state = "pending" THEN [s EXCEPT !.state = state] ELSE s :
        s \in starts}

\* backendProcess.stdout 'data' with 'Running on': resolve(true)
BackendReports ==
    /\ appPhase = "ready"
    /\ \E c \in 1..Len(children) :
          /\ children[c].state = "starting"
          /\ children' = [children EXCEPT ![c].state = "serving",
                                          ![c].reported = TRUE]
          /\ starts' = Settle(c, "resolved")
    /\ NoOutput
    /\ UNCHANGED <<platform, appPhase, mainWindow, installerWindow,
                   backendProcess, currentStep, btnNext, ollamaStatus,
                   modelInstalled, checks, runs, nRuns, pageVars>>

\* backendProcess 'error': the process could not be spawned; reject(error)
BackendSpawnFails ==
    /\ appPhase = "ready"
    /\ \E c \in 1..Len(children) :
          /\ children[c].state = "starting"
          /\ children' = [children EXCEPT ![c].state = "failed"]
          /\ starts' = Settle(c, "rejected")
    /\ NoOutput
    /\ UNCHANGED <<platform, appPhase, mainWindow, installerWindow,
                   backendProcess, currentStep, btnNext, ollamaStatus,
                   modelInstalled, checks, runs, nRuns, pageVars>>

\* backendProcess 'close': a process ends, by itself, after a signal or
\* after a failed spawn, and the handler clears backendProcess
BackendCloses ==
    /\ appPhase = "ready"
    /\ \E c \in 1..Len(children) :
          /\ children[c].state \in {"starting", "serving", "failed"}
          /\ children' = [children EXCEPT ![c].state = "exited"]
    /\ backendProcess' = 0
    /\ NoOutput
    /\ UNCHANGED <<platform, appPhase, mainWindow, installerWindow, starts,
                   currentStep, btnNext, ollamaStatus, modelInstalled, checks,
                   runs, nRuns, pageVars>>

\* setTimeout(() => resolve(true), 3000)
StartTimeout ==
    /\ appPhase = "ready"
    /\ \E s \in starts :
          /\ s.state = "pending"
          /\ starts' = (starts \ {s}) \cup {[s EXCEPT !.state = "resolved"]}
    /\ NoOutput
    /\ UNCHANGED <<platform, appPhase, mainWindow, installerWindow,
                   backendProcess, children, currentStep, btnNext, ollamaStatus,
                   modelInstalled, checks, runs, nRuns, pageVars>>

\* whenReady resumes after `await startBackend()`: createMainWindow(), or
\* nothing when the promise was rejected
WhenReadyResumes ==
    /\ appPhase = "ready"
    /\ \E s \in starts :
          /\ s.caller = 0
          /\ s.state \in {"resolved", "rejected"}
          /\ starts' = starts \ {s}
          /\ mainWindow' = (mainWindow \/ s.state = "resolved")
    /\ NoOutput
    /\ UNCHANGED <<platform, appPhase, installerWindow, backendProcess,
                   children, currentStep, btnNext, ollamaStatus, modelInstalled,
                   checks, runs, nRuns, pageVars>>

\* the 'start-backend' handler returns {success} and the runInstallation
\* that invoked it resumes: the log line, then sleep(1500); the reply to a
\* closed wizard is dropped
StartBackendIpcReturns ==
    /\ appPhase = "ready"
    /\ \E s \in starts :
          /\ s.caller # 0
          /\ s.state \in {"resolved", "rejected"}
          /\ starts' = starts \ {s}
          /\ ipcReply' = [made |-> TRUE, success |-> s.state = "resolved",
                          child |-> s.child]
          /\ IF \E r \in runs : r.id = s.caller
             THEN /\ runs' = {IF r.id = s.caller THEN [r EXCEPT !.at = "sleep"] ELSE r :
                                 r \in runs}
                  /\ installLog' =
                        <<IF s.state = "resolved"
                          THEN "Backend basariyla baslatildi"
                          ELSE "Backend baslatilamadi, uygulama icinden baslatilacak",
                          "Kurulum tamamlandi!">>
             ELSE /\ installLog' = <<>>
                  /\ UNCHANGED runs
    /\ UNCHANGED <<platform, appPhase, mainWindow, installerWindow,
                   backendProcess, children, currentStep, btnNext, ollamaStatus,
                   modelInstalled, checks, nRuns, pageVars>>

\* updateButtons: Next is disabled on steps 2 and 3
UpdateButtons(step) == [btnNext EXCEPT !.disabled = step \in {2, 3}]

\* runInstallation up to its first await: the runs k clicks' worth of
\* handlers start, and the start-backend requests of those that have
\* nothing to install
AwaitsBeforeBackend ==
    ~ollamaStatus.installed \/ ~ollamaStatus.running \/ ~modelInstalled
NewRuns(k) ==
    {[id |-> nRuns + j, at |-> IF AwaitsBeforeBackend THEN "deps" ELSE "backend"] :
        j \in 1..k}
NewStarts(k) ==
    IF AwaitsBeforeBackend THEN {}
    ELSE {[caller |-> nRuns + j, child |-> 0, state |-> "sent"] : j \in 1..k}

\* a click on #btn-next: the listener registered at load calls handleNext,
\* then the onclick property, once the catch block of runInstallation has
\* set it, calls runInstallation. On step 4 handleNext is finishSetup, and
\* 'finish-setup' closes the wizard and creates the main window
ClickNext ==
    /\ appPhase = "ready"
    /\ installerWindow
    /\ ~btnNext.disabled
    /\ LET k == (IF currentStep = 2 THEN 1 ELSE 0) + (IF btnNext.onclick THEN 1 ELSE 0)
       IN  /\ nRuns + k <= MaxRuns
           /\ nRuns' = nRuns + k
           /\ starts' = starts \cup NewStarts(k)
           /\ IF currentStep = 4
              THEN /\ runs' = {}
                   /\ checks' = 0
                   /\ installerWindow' = FALSE
                   /\ mainWindow' = TRUE
                   /\ btnNext' = [btnNext EXCEPT !.disabled = TRUE]
                   /\ UNCHANGED currentStep
              ELSE /\ runs' = runs \cup NewRuns(k)
                   /\ currentStep' = currentStep + 1
                   /\ btnNext' = UpdateButtons(currentStep + 1)
                   /\ IF currentStep = 1
                      THEN checks < MaxChecks /\ checks' = checks + 1
                      ELSE UNCHANGED checks
                   /\ UNCHANGED <<installerWindow, mainWindow>>
    /\ NoOutput
    /\ UNCHANGED <<platform, appPhase, backendProcess, children, ollamaStatus,
                   modelInstalled, pageVars>>

\* a click on #btn-back, visible on steps 2 and 3
ClickBack ==
    /\ appPhase = "ready"
    /\ installerWindow
    /\ currentStep \in {2, 3}
    /\ currentStep' = currentStep - 1
    /\ btnNext' = UpdateButtons(currentStep - 1)
    /\ NoOutput
    /\ UNCHANGED <<mainVars, ollamaStatus, modelInstalled, checks, runs, nRuns,
                   pageVars>>

\* what checkOllama can answer
OllamaStatuses ==
    {[installed |-> TRUE, running |-> TRUE],
     [installed |-> TRUE, running |-> FALSE],
     [installed |-> FALSE, running |-> FALSE]}

\* checkDependencies has its answers: the model is only looked for when
\* Ollama runs, and Next is enabled whatever step is shown by now
CheckDependenciesDone ==
    /\ appPhase = "ready"
    /\ checks > 0
    /\ checks' = checks - 1
    /\ \E status \in OllamaStatuses, hasModel \in BOOLEAN :
          /\ ollamaStatus' = status
          /\ modelInstalled' = IF status.installed /\ status.running
                               THEN hasModel ELSE modelInstalled
    /\ btnNext' = [btnNext EXCEPT !.disabled = FALSE]
    /\ NoOutput
    /\ UNCHANGED <<mainVars, currentStep, runs, nRuns, pageVars>>

\* runInstallation is through its downloads: on to the start-backend call,
\* or, when downloading or installing Ollama or pulling the model failed,
\* the catch block, which turns Next into 'Tekrar Dene'
RunInstallationDeps ==
    /\ appPhase = "ready"
    /\ \E r \in runs :
          /\ r.at = "deps"
          /\ \/ /\ runs' = (runs \ {r}) \cup {[r EXCEPT !.at = "backend"]}
                /\ starts' = starts \cup
                      {[caller |-> r.id, child |-> 0, state |-> "sent"]}
                /\ installLog' = <<>>
                /\ UNCHANGED btnNext
             \/ /\ ~ollamaStatus.installed \/ ~modelInstalled
                /\ runs' = runs \ {r}
                /\ btnNext' = [disabled |-> FALSE, onclick |-> TRUE]
                /\ installLog' = <<"Hata">>
                /\ UNCHANGED starts
    /\ ipcReply' = NoReply
    /\ UNCHANGED <<platform, appPhase, mainWindow, installerWindow,
                   backendProcess, children, currentStep, ollamaStatus,
                   modelInstalled, checks, nRuns, pageVars>>

\* runInstallation after sleep(1500): goToStep(4)
RunInstallationDone(r) ==
    /\ appPhase = "ready"
    /\ r \in runs
    /\ r.at = "sleep"
    /\ runs' = runs \ {r}
    /\ currentStep' = 4
    /\ btnNext' = UpdateButtons(4)
    /\ NoOutput
    /\ UNCHANGED <<mainVars, ollamaStatus, modelInstalled, checks, nRuns,
                   pageVars>>

RunInstallationFinishes == \E r \in runs : RunInstallationDone(r)

\* window-all-closed, and the before-quit that app.quit() raises off macOS;
\* given the children stopBackend has left
WindowAllClosed(kids) ==
    /\ children' = kids
    /\ backendProcess' = 0
    /\ appPhase' = IF platform # "darwin" THEN "quit" ELSE appPhase

\* the user closes the main window: its 'closed' handler calls stopBackend
CloseMainWindow ==
    /\ appPhase = "ready"
    /\ mainWindow
    /\ mainWindow' = FALSE
    /\ WindowAllClosed(StopBackendChildren)
    /\ NoOutput
    /\ UNCHANGED <<platform, installerWindow, starts, currentStep, btnNext,
                   ollamaStatus, modelInstalled, checks, runs, nRuns, pageVars>>

\* the user closes the wizard: its page and the handlers suspended in it go
CloseInstallerWindow ==
    /\ appPhase = "ready"
    /\ installerWindow
    /\ installerWindow' = FALSE
    /\ runs' = {}
    /\ checks' = 0
    /\ WindowAllClosed(StopBackendChildren)
    /\ NoOutput
    /\ UNCHANGED <<platform, mainWindow, starts, currentStep, btnNext,
                   ollamaStatus, modelInstalled, nRuns, pageVars>>

\* app 'activate' with no window open (the dock icon on macOS)
Activate ==
    /\ appPhase = "ready"
    /\ platform = "darwin"
    /\ ~mainWindow /\ ~installerWindow
    /\ mainWindow' = TRUE
    /\ NoOutput
    /\ UNCHANGED <<platform, appPhase, installerWindow, backendProcess, children,
                   starts, wizardVars, pageVars>>

\* the user quits the application: before-quit calls stopBackend, the
\* windows close
Quit ==
    /\ appPhase = "ready"
    /\ appPhase' = "quit"
    /\ children' = StopBackendChildren
    /\ backendProcess' = 0
    /\ mainWindow' = FALSE
    /\ installerWindow' = FALSE
    /\ runs' = {}
    /\ checks' = 0
    /\ NoOutput
    /\ UNCHANGED <<platform, starts, currentStep, btnNext, ollamaStatus,
                   modelInstalled, nRuns, pageVars>>

InitDesktop ==
    /\ storedNotes = NoNotes
    /\ noteCall = NoCall
    /\ filterBtns = {}
    /\ hiddenItems = {}
    /\ species = <<>>
    /\ sourceSelect = [options |-> <<>>, value |-> ""]
    /\ targetBoxes = <<>>
    /\ modelSelect = [options |-> <<>>, value |-> ""]
    /\ searchInput = <<>>
    /\ searchBtnDisabled = FALSE
    /\ loadingVisible = FALSE
    /\ analysisResults = NoResults
    /\ searchHistory = <<>>
    /\ storedHistory = Removed
    /\ now = 0
    /\ calls = {}
    /\ nSearches = 0
    /\ exportModal = [open |-> FALSE, orgs |-> <<>>]
    /\ items = <<>>
    /\ panels = <<>>
    /\ fetches = {}
    /\ nExpands = 0
    /\ alert = NoAlert
    /\ sent = {}
    /\ responses = <<>>
    /\ platform \in Platforms
    /\ appPhase = "launching"
    /\ mainWindow = FALSE
    /\ installerWindow = FALSE
    /\ backendProcess = 0
    /\ children = <<>>
    /\ starts = {}
    /\ currentStep = 1
    /\ btnNext = [disabled |-> FALSE, onclick |-> FALSE]
    /\ ollamaStatus = [installed |-> FALSE, running |-> FALSE]
    /\ modelInstalled = FALSE
    /\ checks = 0
    /\ runs = {}
    /\ nRuns = 0
    /\ installLog = <<>>
    /\ ipcReply = NoReply

NextDesktop ==
    \/ WhenReady
    \/ StartBackendIpc
    \/ BackendReports
    \/ BackendSpawnFails
    \/ BackendCloses
    \/ StartTimeout
    \/ WhenReadyResumes
    \/ StartBackendIpcReturns
    \/ ClickNext
    \/ ClickBack
    \/ CheckDependenciesDone
    \/ RunInstallationDeps
    \/ RunInstallationFinishes
    \/ CloseMainWindow
    \/ CloseInstallerWindow
    \/ Activate
    \/ Quit

SpecDesktop == InitDesktop /\ [][NextDesktop]_vars

----------------------------------------------------------------------------
(* Personal notes: one localStorage key per gene and species               *)

\* the start of every note key, one token of the key
NotePrefix == "gap-filler-note-"

\* `gap-filler-note-${gene}-${species}`, as a sequence of characters
NoteKey(gene, sp) == <<NotePrefix>> \o gene \o <<"-">> \o sp

\* localStorage.getItem(key) || ''
GetItemOrEmpty(storage, key) ==
    IF \E e \in storage : e.key = key
    THEN (CHOOSE e \in storage : e.key = key).note
    ELSE <<>>

\* localStorage.setItem(key, note) and localStorage.removeItem(key)
RemoveItem(storage, key) == {e \in storage : e.key # key}
SetItem(storage, key, note) ==
    RemoveItem(storage, key) \cup {[key |-> key, note |-> note]}

GetGeneNotes(storage, gene, sp) ==
    GetItemOrEmpty(storage, NoteKey(gene, sp))

\* s.split('-')[0] and s.split('-').slice(1).join('-')
RECURSIVE BeforeHyphen(_)
BeforeHyphen(s) ==
    IF s = <<>> \/ Head(s) = "-" THEN <<>> ELSE <<Head(s)>> \o BeforeHyphen(Tail(s))
AfterHyphen(s) ==
    IF Len(BeforeHyphen(s)) = Len(s) THEN <<>>
    ELSE SubSeq(s, Len(BeforeHyphen(s)) + 2, Len(s))

\* the entries of the array getAllSavedNotes returns (localStorage gives
\* no order to its keys)
GetAllSavedNotes(storage) ==
    {[gene    |-> BeforeHyphen(Tail(e.key)),
      species |-> AfterHyphen(Tail(e.key)),
      note    |-> e.note,
      key     |-> e.key] : e \in {x \in storage : Head(x.key) = NotePrefix}}

\* gene symbols and species names of the rows a result can hold; both come
\* from the backend's answer, and either may carry a hyphen
NoteGenes == {<<"A">>, <<"A", "-", "B">>}
NoteSpecies == {<<"C">>, <<"B", "-", "C">>}
NoteTexts == {<<>>, <<" ">>, <<"n">>, <<"m">>, <<" ", "n">>}

notesFrame ==
    /\ Quiet
    /\ UNCHANGED <<species, formVars, searchBtnDisabled, loadingVisible,
                   analysisResults, searchHistory, now, calls, nSearches,
                   exportModal, detailVars, storedHistory, filterVars,
                   desktopVars>>

SaveGeneNote(gene, sp, note) ==
    /\ storedNotes' = IF Trim(note) # <<>>
                      THEN SetItem(storedNotes, NoteKey(gene, sp), note)
                      ELSE RemoveItem(storedNotes, NoteKey(gene, sp))
    /\ noteCall' = [made |-> TRUE, gene |-> gene, species |-> sp, note |-> note]
    /\ notesFrame

\* the notes dialog's Save button
SaveNoteFromModal ==
    \E gene \in NoteGenes, sp \in NoteSpecies, note \in NoteTexts :
        SaveGeneNote(gene, sp, note)

InitNotes ==
    /\ InitLoaded
    /\ searchInput = <<>>
    /\ analysisResults = NoResults
    /\ items = <<>>
    /\ panels = <<>>

NextNotes == SaveNoteFromModal

SpecNotes == InitNotes /\ [][NextNotes]_vars

----------------------------------------------------------------------------
(* The results view, on a page that has just shown the result of an        *)
(* analysis of the query "q"                                               *)

\* what /analyze may have answered for a target list: one gene at either
\* end of every gap level, or two genes in two species
DetailResults(targets) ==
    IF Len(targets) = 1
    THEN {AnalyzePayload(targets, <<<<GapRecord("DREB2A", 45, t)>>>>) : t \in PubCounts}
    ELSE {AnalyzePayload(targets, <<<<GapRecord("DREB2A", 45, 0)>>,
                                    <<GapRecord("CBF1", 8, 10)>>>>)}

InitDetail ==
    /\ InitCommon
    /\ species = SpeciesTable
    /\ modelSelect = [options |-> <<>>, value |-> ""]
    /\ searchInput = <<"q">>
    /\ \E k \in 1..Len(SpeciesTable), targets \in TargetLists :
          /\ sourceSelect = [options |-> SpeciesTable, value |-> SpeciesTable[k]]
          /\ targetBoxes = [i \in 1..Len(SpeciesTable) |->
                [value |-> SpeciesTable[i],
                 checked |-> Includes(targets, SpeciesTable[i])]]
          /\ analysisResults \in DetailResults(targets)
          /\ searchHistory = <<HistoryItem(<<"q">>, SpeciesTable[k], targets,
                                           GapsCount(analysisResults), 0)>>
          /\ storedHistory = Serialise(searchHistory)
    /\ items = RenderGaps(analysisResults)
    /\ panels = FreshPanels(items)

NextDetail ==
    \/ ToggleGeneDetail
    \/ ResumeDetail
    \/ SearchClick
    \/ BackendAnswers
    \/ ResumeSearch

SpecDetail == InitDetail /\ [][NextDetail]_vars

----------------------------------------------------------------------------
(* The GWAS and Functional filter buttons of a gene row's header           *)

FilterTypes == {"gwas", "functional"}

\* document.getElementById(panelId): the element renderPublicationDetail
\* writes into the row's detail panel, so there is none before the load
\* ends, nor after a failed load
HasPubPanel(i) == panels[i].content.kind = "detail"

\* panel.querySelectorAll('.pub-item')
PubItemsOf(i) == IF HasPubPanel(i) THEN panels[i].content.pubItems ELSE <<>>

\* a click on the filter button `filterType` of row i
ToggleFilter ==
    /\ \E i \in 1..Len(items), filterType \in FilterTypes :
          IF <<i, filterType>> \in filterBtns
          THEN /\ filterBtns' = filterBtns \ {<<i, filterType>>}
               /\ hiddenItems' = {h \in hiddenItems : h[1] # i}
          ELSE /\ filterBtns' = {b \in filterBtns : b[1] # i} \cup {<<i, filterType>>}
               /\ hiddenItems' = {h \in hiddenItems : h[1] # i} \cup
                     {<<i, k>> : k \in {k \in 1..Len(PubItemsOf(i)) :
                                          PubItemsOf(i)[k].studyType # filterType}}
    /\ Quiet
    /\ UNCHANGED <<species, formVars, searchBtnDisabled, loadingVisible,
                   analysisResults, searchHistory, now, calls, nSearches,
                   exportModal, detailVars, storedHistory, notesVars,
                   desktopVars>>

NextFilter ==
    \/ ToggleGeneDetail
    \/ ResumeDetail
    \/ ToggleFilter

SpecFilter == InitDetail /\ [][NextFilter]_vars

----------------------------------------------------------------------------
(* Properties of the search form *)

IsAnalyze(r) == r.endpoint = "/analyze"

\* a string of nothing but spaces
IsBlank(str) == \A i \in 1..Len(str) : str[i] = " "

\* this step sent an /analyze request
SendsAnalyze == \E r \in sent' : IsAnalyze(r)

\* C1: handleSearch sends no /analyze request while no target-species
\* checkbox is checked; called with a query and no target, it shows the
\* alert, and the step showing that alert leaves the in-flight calls,
\* state.analysisResults, state.searchHistory and the search button as
\* they were.
C1_NoTargetNoAnalyze ==
    [][/\ SendsAnalyze => CheckedValues(targetBoxes) # <<>>
       /\ (SearchEnter /\ ~IsBlank(searchInput) /\ \A i \in 1..Len(targetBoxes) : ~targetBoxes[i].checked)
             => alert' = NoTargetAlert
       /\ alert' = NoTargetAlert
             => /\ sent' = {}
                /\ UNCHANGED <<calls, analysisResults, searchHistory, searchBtnDisabled>>
      ]_vars

\* handleSearch refused a search that named a query, for want of a target
C1_Witness ==
    /\ alert = NoTargetAlert
    /\ ~IsBlank(searchInput)
    /\ targetBoxes # <<>>
    /\ CheckedValues(targetBoxes) = <<>>
    /\ searchHistory # <<>>

\* C2: handleSearch with an empty or whitespace-only query issues no request
\* of any kind: it shows the alert, and the search button is not disabled
\* and the loading state not shown by that step.
C2_BlankQueryNoRequest ==
    [][/\ SendsAnalyze => ~IsBlank(searchInput)
       /\ (SearchEnter /\ IsBlank(searchInput)) => alert' = EmptyQueryAlert
       /\ alert' = EmptyQueryAlert
             => /\ sent' = {}
                /\ UNCHANGED <<calls, searchBtnDisabled, loadingVisible>>
      ]_vars

\* handleSearch refused a query of spaces, with a target checked
C2_Witness ==
    /\ alert = EmptyQueryAlert
    /\ searchInput # <<>>
    /\ CheckedValues(targetBoxes) # <<>>
    /\ ~searchBtnDisabled
    /\ ~loadingVisible

\* C3: a handleSearch whose /analyze call failed ends with the failure
\* alert, and no step of it (sending, the failure arriving, the catch block)
\* changes state.analysisResults or state.searchHistory.
C3_FailureKeepsState ==
    [][/\ \A c \in calls : (c.status = "failed" /\ c \notin calls') => alert' = FailedAlert
       /\ alert' = FailedAlert => UNCHANGED <<analysisResults, searchHistory>>
       /\ (calls' # calls /\ ~\E c \in calls : c.status = "ok" /\ c \notin calls')
             => UNCHANGED <<analysisResults, searchHistory>>
      ]_vars

\* a failed analysis was reported while an earlier history was on record
C3_Witness ==
    /\ alert = FailedAlert
    /\ calls = {}
    /\ nSearches = 1
    /\ searchHistory # <<>>
    /\ ~searchBtnDisabled

\* C4: every handleSearch that sent an /analyze request eventually finishes
\* and enables the search button again, whether or not the backend answers.
C4_SearchFinishes == searchBtnDisabled ~> ~searchBtnDisabled

\* C7 as claimed: every /analyze request names a model, the selector's value
C7_ModelAlwaysNamed ==
    \A r \in sent : IsAnalyze(r) => r.model # Null /\ r.model = modelSelect.value

\* C7: every /analyze request carries the model selector's value at the
\* time of the search when the selector holds a model, and null when the
\* selector's value is empty (no model loaded or none installed).
C7_ModelFromSelector ==
    \A r \in sent : IsAnalyze(r) =>
        /\ modelSelect.value # "" => r.model = modelSelect.value
        /\ modelSelect.value = "" => r.model = Null

\* a search went out under a model the user picked
C7_Witness ==
    \E r \in sent : IsAnalyze(r) /\ r.model = "m2" /\ modelSelect.value = "m2"

\* the names of a species table
TableNames(table) == {table[i] : i \in 1..Len(table)}

\* seq lists members of the table without repetition, in table order
InTableOrder(seq, table) ==
    \E pos \in [1..Len(seq) -> 1..Len(table)] :
        /\ \A i \in 1..Len(seq) : table[pos[i]] = seq[i]
        /\ \A i \in 1..Len(seq) : \A j \in 1..Len(seq) : i < j => pos[i] < pos[j]

\* C10: every /analyze request names a source species and target species
\* of the loaded species table, the targets without repetition and in table
\* order.
C10_SpeciesFromTable ==
    \A r \in sent : IsAnalyze(r) =>
        /\ r.source_species \in TableNames(species)
        /\ InTableOrder(r.target_species, species)

----------------------------------------------------------------------------
(* Properties of the export *)

\* C8: the PDF export request carries the analysis result: its genes are
\* the genes_found and its summaries the gene_summaries of
\* state.analysisResults.
C8_ExportCarriesResult ==
    \A r \in sent : r.endpoint = "/export/pdf" =>
        /\ r.genes = analysisResults.genes_found
        /\ r.summaries = analysisResults.gene_summaries

----------------------------------------------------------------------------
(* Properties of the results view *)

EnrichmentEndpoints == {"/publications", "/go-terms", "/ortholog"}

\* the source species of the analysis on display: the one its history
\* entry, the newest, records
ShownSource == searchHistory[1].sourceSpecies

\* request r is one toggleGeneDetail may send for the gap of row i of an
\* analysis of `source`
NamesGap(r, row, source) ==
    /\ r.gene = row.gene
    /\ r.endpoint = "/publications" => r.species \in {source, row.targetSpecies}
    /\ r.endpoint = "/go-terms" => r.species = source
    /\ r.endpoint = "/ortholog" =>
          r.source_species = source /\ r.target_species = row.targetSpecies

\* C6: no enrichment request is issued for a gene until the user expands
\* that gene's panel: every /publications, /go-terms or /ortholog request a
\* step sends belongs to a row whose panel that step opens, and names that
\* gap's gene, its target species and the source species of the analysis;
\* showing results sends none.
C6_EnrichmentOnExpand ==
    [][\A r \in sent' : r.endpoint \in EnrichmentEndpoints =>
          \E i \in 1..Len(items) :
             /\ ~panels[i].display
             /\ items' = items /\ panels'[i].display
             /\ NamesGap(r, items[i], ShownSource)]_vars

\* the label the thresholds give a target publication count
LabelForCount(t) ==
    IF t = 0 THEN "No publications"
    ELSE IF t <= 3 THEN "1-3 publications"
    ELSE IF t <= 10 THEN "4-10 publications"
    ELSE "Well studied"

\* C9: every rendered gap record shows the label of its threshold class,
\* and the zero-publication marker iff its target_publications is 0, i.e.
\* iff it is a complete_gap; a studied level is labelled well studied.
C9_PresentationMatchesThresholds ==
    /\ \A i \in 1..Len(items) :
          /\ items[i].levelBadge = LabelForCount(items[i].target_publications)
          /\ items[i].zeroMarker <=> items[i].target_publications = 0
          /\ items[i].zeroMarker <=> items[i].gap_level = "complete_gap"
    /\ FormatGapLevel("studied") = "Well studied"
    /\ \A t \in PubCounts : FormatGapLevel(Classify(t)) = LabelForCount(t)

C9_Witness ==
    /\ Len(items) = 2
    /\ items[1].zeroMarker /\ items[1].levelBadge = "No publications"
    /\ ~items[2].zeroMarker /\ items[2].levelBadge = "4-10 publications"
    /\ panels[2].display

\* C5: when the requests of a detail load settle, a failed /go-terms or
\* /ortholog request never gives the error state: if both /publications
\* requests succeeded the panel shows the detail with both publication
\* lists, the failed section marked unavailable; the two wrappers resolve
\* to a value tagged success = FALSE.
C5_EnrichmentFailureContained ==
    [][\A f \in fetches :
          (responses' # <<>> /\ f \notin fetches' /\ ~f.detached
              /\ responses'[1] = "ok" /\ responses'[2] = "ok") =>
             LET content == panels'[f.row].content IN
             /\ content.kind = "detail"
             /\ content.sourceCount = PublicationsBody.total_count
             /\ content.targetCount = PublicationsBody.total_count
             /\ responses'[3] = "failed" => content.goSection = "not_available"
             /\ responses'[4] = "failed" => content.orthologSection = "api_error"
             /\ FetchGOTerms("failed").settled = "resolved"
             /\ ~FetchGOTerms("failed").value.success
             /\ FetchOrthologInfo("failed").settled = "resolved"
             /\ ~FetchOrthologInfo("failed").value.success]_vars

C5_Witness ==
    /\ responses = <<"ok", "ok", "failed", "failed">>
    /\ \E i \in 1..Len(panels) :
          /\ panels[i].content.kind = "detail"
          /\ panels[i].content.goSection = "not_available"
          /\ panels[i].content.orthologSection = "api_error"

----------------------------------------------------------------------------
(* Properties of the search history *)

\* C11: the history never holds more than MAX_HISTORY_ITEMS entries and is
\* ordered newest first; an add puts the new entry in front of the old
\* ones, dropping exactly the oldest of a full history, and leaves the
\* serialised history in localStorage; a clear empties both.
C11_HistoryBounded ==
    [][/\ Len(searchHistory') <= 10
       /\ \A i \in 1..Len(searchHistory') : \A j \in i..Len(searchHistory') :
             searchHistory'[i].timestamp >= searchHistory'[j].timestamp
       /\ (searchHistory' # searchHistory /\ searchHistory' # <<>>) =>
             /\ Tail(searchHistory') =
                   IF Len(searchHistory) = 10 THEN SubSeq(searchHistory, 1, 9)
                   ELSE searchHistory
             /\ storedHistory' = Serialise(searchHistory')
       /\ (searchHistory' # searchHistory /\ searchHistory' = <<>>) =>
             storedHistory' = Removed]_vars

C11_Witness ==
    /\ Len(searchHistory) = 10
    /\ searchHistory[1].id > 0
    /\ searchHistory[10].id = 0 - 8
    /\ storedHistory = Serialise(searchHistory)

\* the form shows what `entry` recorded, as far as the table still has it
Restores(entry) ==
    /\ searchInput' = entry.query
    /\ entry.sourceSpecies \in {species[i] : i \in 1..Len(species)} =>
          sourceSelect'.value = entry.sourceSpecies
    /\ {targetBoxes'[i].value : i \in {n \in 1..Len(targetBoxes') : targetBoxes'[n].checked}} =
          {entry.targetSpecies[i] : i \in 1..Len(entry.targetSpecies)}
             \cap {species[i] : i \in 1..Len(species)}

\* C12: loadFromHistory(id), for the id of any entry of the history, sets
\* the query field, the source selection and the checked targets to that
\* entry's (for species still in the table) and leaves state.searchHistory
\* and state.analysisResults unchanged.
C12_RestoreReproducesEntry ==
    [][\A k \in 1..Len(searchHistory) :
          LoadFromHistoryItem(searchHistory[k].id) =>
             /\ Restores(searchHistory[k])
             /\ UNCHANGED <<searchHistory, analysisResults>>]_vars

----------------------------------------------------------------------------
(* Properties of the personal notes                                        *)

\* C13: getGeneNotes(gene, species) returns the note most recently saved
\* with saveGeneNote for exactly that pair, or the empty string when the
\* last note saved for it was blank; saving a note for one pair never
\* changes the note returned for a different pair.
C13_NotePerPair ==
    [][\A gene \in NoteGenes, sp \in NoteSpecies, note \in NoteTexts :
          SaveGeneNote(gene, sp, note) =>
             /\ GetGeneNotes(storedNotes', gene, sp) =
                   IF Trim(note) = <<>> THEN <<>> ELSE note
             /\ \A g2 \in NoteGenes, s2 \in NoteSpecies :
                   <<g2, s2>> # <<gene, sp>> =>
                      GetGeneNotes(storedNotes', g2, s2) =
                         GetGeneNotes(storedNotes, g2, s2)]_vars

\* C14: getAllSavedNotes returns exactly one entry per saved non-blank
\* note, and the entry of a note just saved carries the gene and the
\* species it was saved under, whatever the gene name (a '-' in it
\* included).
C14_SavedNotesListed ==
    [][\A gene \in NoteGenes, sp \in NoteSpecies, note \in NoteTexts :
          (SaveGeneNote(gene, sp, note) /\ Trim(note) # <<>>) =>
             /\ Cardinality(GetAllSavedNotes(storedNotes')) = Cardinality(storedNotes')
             /\ \E e \in GetAllSavedNotes(storedNotes') :
                   e.gene = gene /\ e.species = sp /\ e.note = note]_vars

----------------------------------------------------------------------------
(* Properties of the publication filters                                   *)

\* C15: whenever the GWAS or the Functional filter button of a gene row is
\* active, every publication item of that row's detail panel that is not
\* hidden has the matching study type, whenever the filter was switched
\* on; and at most one of the two buttons of a row is active.
C15_FilterShowsMatching ==
    \A i \in 1..Len(items) :
       /\ Cardinality({b \in filterBtns : b[1] = i}) <= 1
       /\ \A b \in filterBtns :
             b[1] = i =>
                \A k \in 1..Len(PubItemsOf(i)) :
                   <<i, k>> \notin hiddenItems => PubItemsOf(i)[k].studyType = b[2]

----------------------------------------------------------------------------
(* Properties of the desktop shell                                         *)

\* C16: the wizard shows step 4 only when a runInstallation run has
\* completed without error: every step that brings currentStep to 4 is the
\* end of such a run, a click on 'Tekrar Dene' after a failed run included.
C16_FinishOnlyAfterInstall ==
    [][(currentStep # 4 /\ currentStep' = 4) => RunInstallationFinishes]_vars

\* C17: the main window is created only with a backend process running,
\* on direct startup, at the end of setup and on re-activation alike.
C17_WindowAfterBackend ==
    [][(~mainWindow /\ mainWindow') =>
          \E c \in 1..Len(children') : Running(children', c)]_vars

\* C18: no backend process outlives the application: once before-quit has
\* been handled, every child startBackend spawned has been signalled by
\* stopBackend or has ended.
C18_NoBackendOutlivesApp ==
    appPhase = "quit" =>
       \A c \in 1..Len(children) :
          children[c].killed \/ children[c].state \in {"exited", "failed"}

\* C19: at most one backend child runs at a time, and backendProcess names
\* it.
C19_SingleBackend ==
    /\ Cardinality({c \in 1..Len(children) : Running(children, c)}) <= 1
    /\ \A c \in 1..Len(children) : Running(children, c) => backendProcess = c

\* C20: 'start-backend' answers {success: true} only for a backend that
\* printed 'Running on', answers {success: false} for one that ended or
\* could not be spawned before that, and the wizard logs the successful
\* start only in the first case.
C20_StartBackendReply ==
    /\ ipcReply.made =>
          /\ ipcReply.success => children[ipcReply.child].reported
          /\ (/\ ~children[ipcReply.child].reported
              /\ children[ipcReply.child].state \in {"exited", "failed"})
                => ~ipcReply.success
    /\ (installLog # <<>> /\ installLog[1] = "Backend basariyla baslatildi") =>
          ipcReply.made /\ children[ipcReply.child].reported

----------------------------------------------------------------------------
(* Properties of overlapping analyses                                      *)

\* the /analyze requests sent and not yet answered
Outstanding == {c \in calls : c.status = "pending"}

\* C21: at most one /analyze request is outstanding at any time, and the
\* search button is disabled while one is: neither a click nor Enter
\* starts a second analysis.
C21_OneAnalysisInFlight ==
    /\ Cardinality(Outstanding) <= 1
    /\ Outstanding # {} => searchBtnDisabled

\* the history entry records the search that call c ran
RecordsSearch(entry, c) ==
    /\ entry.query = c.query
    /\ entry.sourceSpecies = c.sourceSpecies
    /\ entry.targetSpecies = c.targetSpecies

\* C22: a response of an earlier-started analysis that arrives late never
\* replaces the results of a later-started one: the results on show and
\* the front entry of the history, once they belong to another search, are
\* replaced by those of an analysis only while every analysis started
\* after it is still in flight.
C22_LateResponseDiscarded ==
    [][\A c \in calls :
          (/\ ResumeSearchOk(c)
           /\ analysisResults # NoResults
           /\ searchHistory # <<>>
           /\ ~RecordsSearch(searchHistory[1], c)) =>
             \A later \in (c.id + 1)..nSearches : \E d \in calls : d.id = later]_vars

----------------------------------------------------------------------------
(* The export dialog on a page that has just shown the results of the      *)
(* analysis its history's front entry records                              *)

SpecExportAfter == InitDetail /\ [][NextExport]_vars

\* C23: the query and source_species of a PDF export request are those of
\* the analysis run that produced the exported gaps (the run the front
\* entry of the history records), whatever the search input and the
\* source-species selector hold by then.
C23_ExportNamesAnalysis ==
    \A r \in sent :
       r.endpoint = "/export/pdf" =>
          /\ r.query = searchHistory[1].query
          /\ r.source_species = searchHistory[1].sourceSpecies

----------------------------------------------------------------------------
(* The statistics cards, on a loaded page whose analysis has been answered *)
(* and whose continuation has yet to run                                   *)

\* a || b on a number field of the statistics object: an absent field and
\* a zero are both falsy
FieldOr(obj, f, other) ==
    IF HasField(obj, f) /\ obj[f] # 0 THEN obj[f] ELSE other

\* renderStats: the four values written to #stats-grid
RenderStats(results) ==
    LET stats == IF HasField(results, "statistics") THEN results.statistics ELSE <<>>
    IN  [articlesAnalyzed |-> FieldOr(results, "articles_analyzed", 0),
         genesFound       |-> IF HasField(results, "genes_found")
                              THEN Len(results.genes_found) ELSE 0,
         completeGaps     |-> FieldOr(stats, "complete_gaps",
                                      FieldOr(stats, "total_gaps", 0)),
         speciesWithGaps  |-> FieldOr(stats, "species_with_gaps", 0)]

InitStats ==
    /\ storedNotes = NoNotes
    /\ noteCall = NoCall
    /\ filterBtns = {}
    /\ hiddenItems = {}
    /\ DesktopServing
    /\ species = SpeciesTable
    /\ sourceSelect = PopulatedSourceSelect(SpeciesTable)
    /\ targetBoxes = PopulatedTargetBoxes(SpeciesTable)
    /\ modelSelect = [options |-> <<>>, value |-> ""]
    /\ searchInput = <<"q">>
    /\ searchBtnDisabled = TRUE
    /\ loadingVisible = TRUE
    /\ analysisResults = NoResults
    /\ searchHistory = <<>>
    /\ storedHistory = Removed
    /\ now = 0
    /\ \E body \in DetailResults(CheckedValues(targetBoxes)) :
          calls = {[id |-> 0, query |-> <<"q">>,
                    sourceSpecies |-> sourceSelect.value,
                    targetSpecies |-> CheckedValues(targetBoxes),
                    status |-> "ok", body |-> body]}
    /\ nSearches = 0
    /\ exportModal = [open |-> FALSE, orgs |-> <<>>]
    /\ items = <<>>
    /\ panels = <<>>
    /\ fetches = {}
    /\ nExpands = 0
    /\ alert = NoAlert
    /\ sent = {}
    /\ responses = <<>>

SpecStats == InitStats /\ [][NextHistory]_vars

\* the gap records of the result whose level is complete_gap
CompleteGapRecords(results) ==
    SumSeq([i \in 1..Len(results.gaps) |->
              Cardinality({k \in 1..Len(results.gaps[i].missing_genes) :
                             results.gaps[i].missing_genes[k].gap_level = "complete_gap"})])

\* C24: the 'Complete Gaps (0 pubs)' card of the results on show holds the
\* number of the result's gap records whose gap level is complete_gap.
C24_CompleteGapsStat ==
    analysisResults # NoResults =>
       RenderStats(analysisResults).completeGaps = CompleteGapRecords(analysisResults)

====
